---- MODULE Spec2Model ----
(***************************************************************************)
(* The four command-line adapters of packages/hft-tools/python:           *)
(*   nautilus_adapter/backtest.py   backtest runner                       *)
(*   nautilus_adapter/data.py       data fetcher                          *)
(*   optuna_adapter/optimizer.py    optimizer                             *)
(*   optuna_adapter/study.py        study continuation                    *)
(* Each reads one text from standard input, runs main(), prints one line   *)
(* of JSON and exits.                                                      *)
(***************************************************************************)
EXTENDS Integers, Sequences, FiniteSets, TLC

(***************************************************************************)
(* The state: one adapter process at a time, and what its caller keeps of  *)
(* the earlier runs.                                                       *)
(***************************************************************************)
VARIABLES
    pc,           \* "idle", "running" (started, main() not yet run), "exited"
    adapter,      \* the adapter that was started, "none" when idle
    stdin,        \* the text on its standard input
    stdout,       \* the lines it printed
    exitCode,     \* its exit code, NoExit until it has exited
    studyTotals,  \* per study name, the total_trials of its last successful continuation
    lastFetch     \* the request and records_count of the preceding data fetcher run

vars == <<pc, adapter, stdin, stdout, exitCode, studyTotals, lastFetch>>

(***************************************************************************)
(* Bounds of the model.                                                    *)
(***************************************************************************)
\* nTrials takes the values 0..MaxTrials (and may be absent)
MaxTrials == 5

(***************************************************************************)
(* Python / JSON values.  Every value is a record tagged by its type, so   *)
(* that values of different types are never confused: None, str, int,      *)
(* float (held in units of 10^-5), bool, list and dict.                    *)
(***************************************************************************)
JNull == [t |-> "NoneType"]
JStr(s) == [t |-> "str", s |-> s]
JInt(n) == [t |-> "int", n |-> n]
\* a float, m = the value times 10^5 (0.00015 is Float(15), 2.15 is Float(215000))
Float(m) == [t |-> "float", m |-> m]
JBool(b) == [t |-> "bool", b |-> b]
JList(l) == [t |-> "list", l |-> l]
JObj(f) == [t |-> "dict", o |-> f]
\* a formatted str (an f-string, or the str() of an exception): the format
\* and the values put into it
FStr(fmt, args) == [t |-> "fstr", fmt |-> fmt, args |-> args]

EmptyDict == [k \in {} |-> JNull]

\* marks a key left out of an input document (never a value of the program)
Absent == [t |-> "absent"]

\* no preceding data fetcher run
NoFetch == [t |-> "absent"]

\* the dict holding the keys of c that are not left out
MkObj(c) == JObj([k \in {j \in DOMAIN c : c[j] # Absent} |-> c[k]])

(***************************************************************************)
(* Results of evaluating Python code: a returned value or a raised          *)
(* exception (its class name and its str()).                               *)
(***************************************************************************)
Return(v) == [raised |-> FALSE, value |-> v]
Raise(type, msg) == [raised |-> TRUE, type |-> type, msg |-> msg]

\* bool(v): Python truth value, as used by "x or default"
Truthy(v) ==
    CASE v.t = "NoneType" -> FALSE
      [] v.t = "str" -> v.s # ""
      [] v.t = "fstr" -> TRUE
      [] v.t = "int" -> v.n # 0
      [] v.t = "float" -> v.m # 0
      [] v.t = "bool" -> v.b
      [] v.t = "list" -> v.l # <<>>
      [] v.t = "dict" -> DOMAIN v.o # {}

\* x or y
Or(x, y) == IF Truthy(x) THEN x ELSE y

\* d.get(k, default): only a dict has the attribute get
Get(d, k, default) ==
    IF d.t = "dict"
    THEN Return(IF k \in DOMAIN d.o THEN d.o[k] ELSE default)
    ELSE Raise("AttributeError", FStr("'{}' object has no attribute 'get'", <<JStr(d.t)>>))

\* d[k] with k a str
Subscript(d, k) ==
    CASE d.t = "dict" ->
           IF k \in DOMAIN d.o THEN Return(d.o[k]) ELSE Raise("KeyError", FStr("'{}'", <<JStr(k)>>))
      [] d.t = "str" -> Raise("TypeError", FStr("string indices must be integers, not 'str'", <<>>))
      [] d.t = "list" -> Raise("TypeError", FStr("list indices must be integers or slices, not str", <<>>))
      [] OTHER -> Raise("TypeError", FStr("'{}' object is not subscriptable", <<JStr(d.t)>>))

(***************************************************************************)
(* Standard input and output.  A text is either the serialisation of a     *)
(* JSON value, or text that is no JSON document.                           *)
(***************************************************************************)
\* json.dumps(v): the one-line text of v
json_dumps(v) == [kind |-> "json", value |-> v]

Malformed(chars, err) == [kind |-> "malformed", chars |-> chars, err |-> err]

GarbageTexts ==
    { Malformed("", "Expecting value: line 1 column 1 (char 0)"),
      Malformed("{\"strategy\": ", "Expecting value: line 1 column 14 (char 13)"),
      Malformed("{} {}", "Extra data: line 1 column 4 (char 3)"),
      Malformed("{'action': 'continue'}",
                "Expecting property name enclosed in double quotes: line 1 column 2 (char 1)") }

\* json.loads(sys.stdin.read())
json_loads(text) ==
    CASE text.kind = "json" -> Return(text.value)
      [] text.kind = "malformed" -> Raise("JSONDecodeError", FStr(text.err, <<>>))

\* the error envelope built by the except block of every main()
error_result(e) ==
    [status |-> JStr("error"), error |-> e.msg, type |-> JStr(e.type)]

(***************************************************************************)
(* nautilus_adapter/backtest.py                                            *)
(***************************************************************************)
\* the placeholder result of run_backtest, given the three values it reads
backtest_result(name, start, end) ==
    [status |-> JStr("success"),
     strategy_name |-> name,
     period |-> [start |-> start, end |-> end],
     performance |->
        [total_return |-> Float(15000), sharpe_ratio |-> Float(180000),
         sortino_ratio |-> Float(210000), max_drawdown |-> Float(5000),
         profit_factor |-> Float(230000), win_rate |-> Float(62000),
         total_trades |-> JInt(245), winning_trades |-> JInt(152),
         losing_trades |-> JInt(93), average_win |-> Float(15050000),
         average_loss |-> Float(-8530000), largest_win |-> Float(58000000),
         largest_loss |-> Float(-32000000)],
     metrics_by_period |->
        [daily |-> [avg_return |-> Float(120), volatility |-> Float(1500)],
         weekly |-> [avg_return |-> Float(840), volatility |-> Float(4200)]],
     risk_metrics |->
        [var_95 |-> Float(2500), cvar_95 |-> Float(3200),
         max_consecutive_losses |-> JInt(5), max_consecutive_wins |-> JInt(8)],
     execution_stats |-> [avg_slippage |-> Float(15), total_commission |-> Float(24550000)],
     warnings |->
        JList(<<JStr("Backtest uses simulated data - results may not reflect live performance")>>),
     trade_log_summary |->
        [first_trade |-> start, last_trade |-> end, avg_holding_time_seconds |-> JInt(25)]]

\* run_backtest reading strategy["metadata"] instead of strategy.get("metadata", {})
run_backtest_subscript(strategy, data_config, config) ==
    LET metadata == Subscript(strategy, "metadata") IN
    IF metadata.raised THEN metadata ELSE
    LET name == Get(metadata.value, "name", JStr("unknown")) IN
    IF name.raised THEN name ELSE
    LET start == Subscript(data_config, "startDate") IN
    IF start.raised THEN start ELSE
    LET end == Subscript(data_config, "endDate") IN
    IF end.raised THEN end ELSE
    Return(backtest_result(name.value, start.value, end.value))

\* run_backtest with the two dates exchanged
run_backtest_swapped(strategy, data_config, config) ==
    LET metadata == Get(strategy, "metadata", JObj(EmptyDict)) IN
    IF metadata.raised THEN metadata ELSE
    LET name == Get(metadata.value, "name", JStr("unknown")) IN
    IF name.raised THEN name ELSE
    LET start == Subscript(data_config, "startDate") IN
    IF start.raised THEN start ELSE
    LET end == Subscript(data_config, "endDate") IN
    IF end.raised THEN end ELSE
    Return(backtest_result(name.value, end.value, start.value))

\* run_backtest: the dict literal is evaluated top to bottom, so the name is
\* looked up before the dates are
run_backtest(strategy, data_config, config) ==
    LET metadata == Get(strategy, "metadata", JObj(EmptyDict)) IN
    IF metadata.raised THEN metadata ELSE
    LET name == Get(metadata.value, "name", JStr("unknown")) IN
    IF name.raised THEN name ELSE
    LET start == Subscript(data_config, "startDate") IN
    IF start.raised THEN start ELSE
    LET end == Subscript(data_config, "endDate") IN
    IF end.raised THEN end ELSE
    Return(backtest_result(name.value, start.value, end.value))

\* the try block of main() of backtest.py, up to the print
backtest_try(text) ==
    LET input_data == json_loads(text) IN
    LET strategy == IF input_data.raised THEN input_data
                    ELSE Get(input_data.value, "strategy", JObj(EmptyDict)) IN
    LET data_config == IF strategy.raised THEN strategy
                       ELSE Get(input_data.value, "dataConfig", JObj(EmptyDict)) IN
    LET config == IF data_config.raised THEN data_config
                  ELSE Get(input_data.value, "config", JObj(EmptyDict)) IN
    LET result == IF config.raised THEN config
                  ELSE run_backtest(strategy.value, data_config.value, config.value) IN
    result

\* main() without the sys.exit(1) that ends the except block
backtest_main_no_exit(text) ==
    LET result == backtest_try(text) IN
    IF result.raised
    THEN [stdout |-> <<json_dumps(error_result(result))>>, exit |-> 0]
    ELSE [stdout |-> <<json_dumps(result.value)>>, exit |-> 0]

\* main() of backtest.py: what the process prints and its exit code
backtest_main(text) ==
    LET result == backtest_try(text) IN
    IF result.raised
    THEN [stdout |-> <<json_dumps(error_result(result))>>, exit |-> 1]
    ELSE [stdout |-> <<json_dumps(result.value)>>, exit |-> 0]

(***************************************************************************)
(* nautilus_adapter/data.py                                                *)
(***************************************************************************)
\* records_count adding the records of the preceding run to those of this one
records_count_appended ==
    IF lastFetch = NoFetch
    THEN JInt(1500000)
    ELSE JInt(lastFetch.records_count.n + 1500000)

\* the number of records that fetch_data reports
records_count == JInt(1500000)

\* fetch_data: the placeholder summary
fetch_data(source, instrument, data_type, start_date, end_date, output_path) ==
    Return(
    [status |-> JStr("success"),
     source |-> source,
     instrument |-> instrument,
     data_type |-> data_type,
     period |-> [start |-> start_date, end |-> end_date],
     records_count |-> records_count,
     file_size_mb |-> Float(25050000),
     output_path |-> Or(output_path, JStr("memory")),
     data_quality |-> [missing_data_points |-> JInt(0), gaps |-> JList(<<>>), anomalies |-> JInt(0)],
     summary |->
        [first_timestamp |-> start_date, last_timestamp |-> end_date,
         coverage |-> JStr("100%")]])

\* the try block of main() of data.py, up to the print
data_try(text) ==
    LET input_data == json_loads(text) IN
    LET source == IF input_data.raised THEN input_data
                  ELSE Get(input_data.value, "source", JNull) IN
    LET result ==
          IF source.raised THEN source
          ELSE fetch_data(source.value,
                          Get(input_data.value, "instrument", JNull).value,
                          Get(input_data.value, "dataType", JNull).value,
                          Get(input_data.value, "startDate", JNull).value,
                          Get(input_data.value, "endDate", JNull).value,
                          Get(input_data.value, "outputPath", JNull).value) IN
    result

\* main() of data.py: what the process prints and its exit code
data_main(text) ==
    LET result == data_try(text) IN
    IF result.raised
    THEN [stdout |-> <<json_dumps(error_result(result))>>, exit |-> 1]
    ELSE [stdout |-> <<json_dumps(result.value)>>, exit |-> 0]

(***************************************************************************)
(* optuna_adapter/optimizer.py                                             *)
(***************************************************************************)
\* one entry of optimization_history
HistoryEntry(trial, value, windowSize, threshold) ==
    [trial |-> JInt(trial), value |-> Float(value),
     params |-> [windowSize |-> JInt(windowSize), threshold |-> Float(threshold)]]

\* optimization_history with one more trial, better than the best reported
optimization_history_extended ==
    << HistoryEntry(0, 120000, 10, 30000),
       HistoryEntry(1, 150000, 12, 32000),
       HistoryEntry(2, 180000, 15, 35000),
       HistoryEntry(3, 215000, 15, 35000),
       HistoryEntry(4, 225000, 16, 35000) >>

\* the per-trial history that optimize reports
optimization_history ==
    << HistoryEntry(0, 120000, 10, 30000),
       HistoryEntry(1, 150000, 12, 32000),
       HistoryEntry(2, 180000, 15, 35000),
       HistoryEntry(3, 215000, 15, 35000) >>

\* optimize: the placeholder result
optimize(strategy, search_space, n_trials, study_name, sampler, pruner, backtest_config) ==
    Return(
    [status |-> JStr("success"),
     study_name |-> Or(study_name, JStr("unnamed_study")),
     n_trials |-> n_trials,
     sampler |-> sampler,
     pruner |-> pruner,
     best_params |->
        ("signals.ofi_signal.params.windowSize" :> JInt(15)) @@
        ("signals.ofi_signal.params.threshold" :> Float(35000)) @@
        ("exit.stopLoss.value" :> Float(120)) @@
        ("exit.takeProfit.value" :> Float(250)),
     best_value |-> Float(215000),
     optimization_history |-> JList(optimization_history),
     param_importances |->
        ("signals.ofi_signal.params.threshold" :> Float(45000)) @@
        ("exit.takeProfit.value" :> Float(30000)) @@
        ("signals.ofi_signal.params.windowSize" :> Float(15000)) @@
        ("exit.stopLoss.value" :> Float(10000)),
     statistics |->
        [total_trials |-> n_trials, complete_trials |-> n_trials,
         pruned_trials |-> JInt(0), best_trial_number |-> JInt(3)]])

\* the try block of main() of optimizer.py, up to the print
optimizer_try(text) ==
    LET input_data == json_loads(text) IN
    LET strategy == IF input_data.raised THEN input_data
                    ELSE Get(input_data.value, "strategy", JObj(EmptyDict)) IN
    LET result ==
          IF strategy.raised THEN strategy
          ELSE optimize(strategy.value,
                        Get(input_data.value, "searchSpace", JObj(EmptyDict)).value,
                        Get(input_data.value, "nTrials", JInt(100)).value,
                        Get(input_data.value, "studyName", JNull).value,
                        Get(input_data.value, "sampler", JStr("TPE")).value,
                        Get(input_data.value, "pruner", JStr("Hyperband")).value,
                        Get(input_data.value, "backtestConfig", JObj(EmptyDict)).value) IN
    result

\* main() of optimizer.py: what the process prints and its exit code
optimizer_main(text) ==
    LET result == optimizer_try(text) IN
    IF result.raised
    THEN [stdout |-> <<json_dumps(error_result(result))>>, exit |-> 1]
    ELSE [stdout |-> <<json_dumps(result.value)>>, exit |-> 0]

(***************************************************************************)
(* optuna_adapter/study.py                                                 *)
(***************************************************************************)
\* continue_study reporting the trials added as the total
continue_study_added_as_total(study_name, n_trials) ==
    Return(
    [status |-> JStr("success"),
     study_name |-> study_name,
     trials_added |-> n_trials,
     total_trials |-> n_trials,
     best_value |-> Float(225000),
     improved |-> JBool(TRUE),
     message |-> FStr("Added {} trials to study '{}'", <<n_trials, study_name>>)])

\* continue_study: the placeholder result
continue_study(study_name, n_trials) ==
    Return(
    [status |-> JStr("success"),
     study_name |-> study_name,
     trials_added |-> n_trials,
     total_trials |-> JInt(150),
     best_value |-> Float(225000),
     improved |-> JBool(TRUE),
     message |-> FStr("Added {} trials to study '{}'", <<n_trials, study_name>>)])

\* the try block of main() of study.py, up to the print: an action other than "continue" is answered inside
\* the try block, by a document without a type, and main() returns normally
study_try(text) ==
    LET input_data == json_loads(text) IN
    LET action == IF input_data.raised THEN input_data
                  ELSE Get(input_data.value, "action", JStr("continue")) IN
    LET result ==
          IF action.raised THEN action
          ELSE LET study_name == Get(input_data.value, "studyName", JNull).value
                   n_trials == Get(input_data.value, "nTrials", JInt(50)).value
               IN IF action.value = JStr("continue")
                  THEN continue_study(study_name, n_trials)
                  ELSE Return([status |-> JStr("error"),
                               error |-> FStr("Unknown action: {}", <<action.value>>)]) IN
    result

\* main() of study.py: what the process prints and its exit code
study_main(text) ==
    LET result == study_try(text) IN
    IF result.raised
    THEN [stdout |-> <<json_dumps(error_result(result))>>, exit |-> 1]
    ELSE [stdout |-> <<json_dumps(result.value)>>, exit |-> 0]

(***************************************************************************)
(* The texts given to the adapters on standard input.                      *)
(***************************************************************************)
\* JSON documents that are not objects
NonObjectDocs == {JNull, JList(<<>>), JStr("abc"), JInt(42)}

StrategyVals ==
    { Absent, JNull, JStr("abc"), JObj(EmptyDict),
      JObj("metadata" :> JNull),
      JObj("metadata" :> JObj(EmptyDict)),
      JObj("metadata" :> JObj("name" :> JNull)),
      JObj("metadata" :> JObj("name" :> JStr("momentum"))) }

StartDates == {JStr("2024-01-01"), JInt(20240101)}

EndDates == {JStr("2024-01-31"), JStr("2023-12-01")}

DataConfigVals ==
    { Absent, JNull, JStr("2024"), JList(<<>>) } \cup
    { MkObj(("startDate" :> sd) @@ ("endDate" :> ed)) :
        sd \in StartDates \cup {Absent}, ed \in EndDates \cup {Absent} }

BacktestDocs ==
    { MkObj(("strategy" :> st) @@ ("dataConfig" :> dc) @@ ("config" :> cf)) :
        st \in StrategyVals, dc \in DataConfigVals, cf \in {Absent, JObj(EmptyDict)} }

DataDocs ==
    { MkObj(("source" :> so) @@ ("instrument" :> ins) @@ ("dataType" :> dt) @@
            ("startDate" :> sd) @@ ("endDate" :> ed) @@ ("outputPath" :> op)) :
        so \in {Absent, JNull, JStr("binance")},
        ins \in {Absent, JStr("BTCUSDT")},
        dt \in {Absent, JStr("trades")},
        sd \in {Absent, JStr("2024-01-01")},
        ed \in {Absent, JStr("2024-01-31")},
        op \in {Absent, JStr(""), JStr("/data/btc.parquet")} }

TrialCounts == {Absent} \cup {JInt(n) : n \in 0..MaxTrials}

OptimizerDocs ==
    { MkObj(("strategy" :> st) @@ ("searchSpace" :> sp) @@ ("nTrials" :> nt) @@
            ("studyName" :> sn) @@ ("sampler" :> sa) @@ ("pruner" :> pr)) :
        st \in {Absent, JObj(EmptyDict)},
        sp \in {Absent, JObj(EmptyDict)},
        nt \in TrialCounts,
        sn \in {Absent, JStr(""), JStr("s1")},
        sa \in {Absent, JStr("TPE"), JStr("NoSuchSampler")},
        pr \in {Absent, JStr("Hyperband"), JStr("NoSuchPruner")} }

StudyNames == {JStr("s1"), JStr("s2")}

StudyDocs ==
    { MkObj(("action" :> ac) @@ ("studyName" :> sn) @@ ("nTrials" :> nt)) :
        ac \in {Absent, JNull, JStr("continue"), JStr("stop")},
        sn \in {Absent} \cup StudyNames,
        nt \in TrialCounts }

Adapters == {"backtest", "data", "optimizer", "study"}

Docs(a) ==
    CASE a = "backtest" -> BacktestDocs
      [] a = "data" -> DataDocs
      [] a = "optimizer" -> OptimizerDocs
      [] a = "study" -> StudyDocs

\* the texts an adapter is started with
Inputs(a) == GarbageTexts \cup {json_dumps(d) : d \in NonObjectDocs \cup Docs(a)}

(***************************************************************************)
(* Initial state and steps.                                                *)
(***************************************************************************)
NoExit == -1

NoText == [kind |-> "none"]

\* the names a continuation reports: the studyName given, None when it is left out
StudyKeys == StudyNames \cup {JNull}

Init ==
    /\ pc = "idle"
    /\ adapter = "none"
    /\ stdin = NoText
    /\ stdout = <<>>
    /\ exitCode = NoExit
    /\ studyTotals = [k \in StudyKeys |-> Absent]
    /\ lastFetch = NoFetch

\* python3 <adapter>.py with text on standard input
Launch(a) ==
    /\ pc = "idle"
    /\ \E text \in Inputs(a) :
         /\ adapter' = a
         /\ stdin' = text
    /\ pc' = "running"
    /\ stdout' = <<>>
    /\ exitCode' = NoExit
    /\ UNCHANGED <<studyTotals, lastFetch>>

\* the process runs main() and exits
Run(a, result) ==
    /\ pc = "running"
    /\ adapter = a
    /\ stdout' = result.stdout
    /\ exitCode' = result.exit
    /\ pc' = "exited"
    /\ UNCHANGED <<adapter, stdin, studyTotals, lastFetch>>

BacktestMain == Run("backtest", backtest_main(stdin))

DataMain == Run("data", data_main(stdin))

OptimizerMain == Run("optimizer", optimizer_main(stdin))

StudyMain == Run("study", study_main(stdin))

\* the document printed by the process that exited (it printed one line)
Document == stdout[1].value

Succeeded == Len(stdout) = 1 /\ Document.status = JStr("success")

\* the caller has read the output and is ready to start the next process
Collect ==
    /\ pc = "exited"
    /\ pc' = "idle"
    /\ adapter' = "none"
    /\ stdin' = NoText
    /\ stdout' = <<>>
    /\ exitCode' = NoExit

Reap == Collect /\ UNCHANGED <<studyTotals, lastFetch>>

\* the caller of the study continuation notes the total it was told
RecordStudy ==
    /\ adapter = "study"
    /\ Collect
    /\ studyTotals' = IF Succeeded
                      THEN [studyTotals EXCEPT ![Document.study_name] = Document.total_trials]
                      ELSE studyTotals
    /\ UNCHANGED lastFetch

\* the six fields of a data fetcher request
RequestOf(text) ==
    IF text.kind = "json" /\ text.value.t = "dict"
    THEN [k \in {"source", "instrument", "dataType", "startDate", "endDate", "outputPath"} |->
            Get(text.value, k, Absent).value]
    ELSE Absent

\* the caller of the data fetcher notes the request and the count it was told
RecordFetch ==
    /\ adapter = "data"
    /\ Collect
    /\ lastFetch' = IF Succeeded
                    THEN [request |-> RequestOf(stdin), records_count |-> Document.records_count]
                    ELSE NoFetch
    /\ UNCHANGED studyTotals

Next ==
    \/ \E a \in Adapters : Launch(a)
    \/ BacktestMain
    \/ DataMain
    \/ OptimizerMain
    \/ StudyMain
    \/ Reap

Spec == Init /\ [][Next]_vars

\* successive runs of the study continuation
NextStudy == Launch("study") \/ StudyMain \/ RecordStudy

SpecStudy == Init /\ [][NextStudy]_vars

\* successive runs of the data fetcher
NextFetch == Launch("data") \/ DataMain \/ RecordFetch

SpecFetch == Init /\ [][NextFetch]_vars

(***************************************************************************)
(* Vocabulary of the properties.                                           *)
(***************************************************************************)
Exited(a) == pc = "exited" /\ adapter = a

\* standard input holds a JSON document
ValidJson == stdin.kind = "json"

\* standard input holds a JSON object
IsObject == ValidJson /\ stdin.value.t = "dict"

\* the input object has the key k
Has(k) == k \in DOMAIN stdin.value.o

\* the value of key k of the input object
Field(k) == stdin.value.o[k]

OneDocument == Len(stdout) = 1

Failed == OneDocument /\ Document.status = JStr("error")

\* the input object carries every required field of the adapter
HasRequired ==
    CASE adapter = "backtest" ->
           /\ Has("strategy")
           /\ Has("dataConfig")
           /\ Field("dataConfig").t = "dict"
           /\ {"startDate", "endDate"} \subseteq DOMAIN Field("dataConfig").o
      [] adapter = "data" ->
           \A k \in {"source", "instrument", "dataType", "startDate", "endDate"} : Has(k)
      [] adapter = "optimizer" -> Has("strategy") /\ Has("searchSpace")
      [] adapter = "study" -> Has("action") /\ Has("studyName")

\* the strategy is an object whose metadata, when present, is an object
StrategyIsObject ==
    /\ Field("strategy").t = "dict"
    /\ "metadata" \in DOMAIN Field("strategy").o => Field("strategy").o["metadata"].t = "dict"

AnyExited == pc = "exited"

(***************************************************************************)
(* C1.  For each of the four adapters: when standard input is not a valid  *)
(* JSON document, the run writes exactly one output document, its status   *)
(* is "error", and the process exits with code 1.                          *)
(***************************************************************************)
C1_InvalidJsonIsAnError ==
    (AnyExited /\ ~ValidJson) => (OneDocument /\ Failed /\ exitCode = 1)

C1_Witness ==
    /\ Exited("backtest")
    /\ stdin = Malformed("", "Expecting value: line 1 column 1 (char 0)")
    /\ Failed
    /\ Document.type = JStr("JSONDecodeError")
    /\ exitCode = 1

(***************************************************************************)
(* C2.  As stated: every JSON object that carries all required fields of   *)
(* the adapter, whatever their values, yields exactly one line, a          *)
(* document with status "success", and exit code 0.                        *)
(***************************************************************************)
C2_Original ==
    (AnyExited /\ IsObject /\ HasRequired) => (Succeeded /\ exitCode = 0)

(***************************************************************************)
(* C2, amended.  Every JSON object that carries all required fields of the *)
(* adapter yields exactly one line, a document with status "success", and  *)
(* exit code 0, provided that for the backtest runner strategy is an       *)
(* object whose metadata, when present, is an object, and that for the     *)
(* study continuation action is "continue".                                *)
(***************************************************************************)
C2_RequiredFieldsSucceed ==
    (/\ AnyExited
     /\ IsObject
     /\ HasRequired
     /\ adapter = "backtest" => StrategyIsObject
     /\ adapter = "study" => Field("action") = JStr("continue"))
    => (Succeeded /\ exitCode = 0)

C2_Witness ==
    /\ Exited("backtest")
    /\ IsObject
    /\ HasRequired
    /\ Field("strategy") = JObj(EmptyDict)
    /\ Succeeded
    /\ exitCode = 0

(***************************************************************************)
(* C3.  In every run of every adapter a document with status "error"       *)
(* carries an error field and a type field and the process exits with code *)
(* 1, and the process exits with code 0 only when the document has status  *)
(* "success".                                                              *)
(***************************************************************************)
C3_ErrorEnvelope ==
    AnyExited =>
        /\ OneDocument
        /\ Failed => ({"error", "type"} \subseteq DOMAIN Document /\ exitCode = 1)
        /\ exitCode = 0 => Succeeded

(***************************************************************************)
(* C4.  For each of the four adapters: a JSON object that lacks one of the *)
(* adapter's required fields yields a document with status "error" and     *)
(* exit code 1, never a document with status "success".                    *)
(***************************************************************************)
C4_MissingFieldRejected ==
    (AnyExited /\ IsObject /\ ~HasRequired) => (Failed /\ exitCode = 1 /\ ~Succeeded)

(***************************************************************************)
(* C5.  Optimizer: an input whose sampler or pruner names a strategy that  *)
(* is not a known one fails validation: status "error", exit code 1, and   *)
(* no document with status "success" echoing the unknown name.             *)
(***************************************************************************)
\* the only sampler and pruner that the optimizer names (its defaults)
KnownSamplers == {JStr("TPE")}

KnownPruners == {JStr("Hyperband")}

UnknownStrategyName ==
    \/ Has("sampler") /\ Field("sampler") \notin KnownSamplers
    \/ Has("pruner") /\ Field("pruner") \notin KnownPruners

C5_UnknownNameRejected ==
    (Exited("optimizer") /\ IsObject /\ UnknownStrategyName)
    => (Failed /\ exitCode = 1 /\ ~Succeeded)

(***************************************************************************)
(* C6.  Optimizer: in every success document, for every trial budget       *)
(* nTrials (100 when absent), the number of entries of                     *)
(* optimization_history equals statistics.complete_trials +                *)
(* statistics.pruned_trials.                                               *)
(***************************************************************************)
C6_HistoryLength ==
    (Exited("optimizer") /\ Succeeded) =>
        Len(Document.optimization_history.l) =
            Document.statistics.complete_trials.n + Document.statistics.pruned_trials.n

(***************************************************************************)
(* C7.  Optimizer: in every success document best_value is the maximum of  *)
(* the value fields of optimization_history, and                           *)
(* statistics.best_trial_number is the trial index of an entry holding     *)
(* that maximum.                                                           *)
(***************************************************************************)
\* the largest value of a non-empty history
MaxValue(history) ==
    CHOOSE v \in {history[i].value.m : i \in DOMAIN history} :
        \A i \in DOMAIN history : history[i].value.m <= v

C7_BestIsMaximum ==
    (Exited("optimizer") /\ Succeeded) =>
        LET history == Document.optimization_history.l IN
        /\ history # <<>>
        /\ Document.best_value.m = MaxValue(history)
        /\ \E i \in DOMAIN history :
              /\ history[i].trial = Document.statistics.best_trial_number
              /\ history[i].value.m = MaxValue(history)

C7_Witness ==
    /\ Exited("optimizer")
    /\ Succeeded
    /\ Document.n_trials = JInt(4)
    /\ Len(Document.optimization_history.l) = 4
    /\ Document.best_value = Float(215000)

(***************************************************************************)
(* C8.  Backtest runner: for every input object whose dataConfig has       *)
(* startDate and endDate, the success document has period.start equal to   *)
(* dataConfig.startDate, period.end equal to dataConfig.endDate, and       *)
(* strategy_name equal to strategy.metadata.name when that name is         *)
(* present, "unknown" when strategy, metadata or name is absent; and such  *)
(* a success document is printed whenever strategy and metadata are each   *)
(* absent or an object.                                                    *)
(***************************************************************************)
HasDates ==
    /\ Has("dataConfig")
    /\ Field("dataConfig").t = "dict"
    /\ {"startDate", "endDate"} \subseteq DOMAIN Field("dataConfig").o

\* strategy.metadata.name, "unknown" when strategy, metadata or name is absent
NameGiven ==
    IF ~Has("strategy") \/ Field("strategy").t # "dict"
    THEN JStr("unknown")
    ELSE LET strategy == Field("strategy").o IN
         IF "metadata" \notin DOMAIN strategy \/ strategy["metadata"].t # "dict"
         THEN JStr("unknown")
         ELSE LET metadata == strategy["metadata"].o IN
              IF "name" \in DOMAIN metadata THEN metadata["name"] ELSE JStr("unknown")

C8_BacktestEchoesRequest ==
    (Exited("backtest") /\ IsObject /\ HasDates) =>
        /\ Succeeded =>
              /\ Document.period.start = Field("dataConfig").o["startDate"]
              /\ Document.period.end = Field("dataConfig").o["endDate"]
              /\ Document.strategy_name = NameGiven
        /\ (~Has("strategy") \/ StrategyIsObject) => Succeeded

C8_Witness ==
    /\ Exited("backtest")
    /\ stdin = json_dumps(JObj(
          ("dataConfig" :> JObj(("startDate" :> JStr("2024-01-01")) @@
                                ("endDate" :> JStr("2024-01-31")))) @@
          ("strategy" :> JObj("metadata" :> JObj("name" :> JStr("momentum"))))))
    /\ Succeeded
    /\ Document.strategy_name = JStr("momentum")
    /\ Document.period = [start |-> JStr("2024-01-01"), end |-> JStr("2024-01-31")]

(***************************************************************************)
(* C9.  Study continuation: over any sequence of successful continuations  *)
(* of the same studyName, the total_trials reported by an invocation is at *)
(* least the total_trials reported by the preceding one, and each          *)
(* invocation reports trials_added equal to the count it was asked for     *)
(* (nTrials, 50 when nTrials is absent).                                   *)
(***************************************************************************)
RequestedTrials == IF Has("nTrials") THEN Field("nTrials") ELSE JInt(50)

RequestedStudy == IF Has("studyName") THEN Field("studyName") ELSE JNull

C9_TotalNeverDecreases ==
    (Exited("study") /\ Succeeded) =>
        /\ Document.trials_added = RequestedTrials
        /\ studyTotals[RequestedStudy] # Absent =>
              Document.total_trials.n >= studyTotals[RequestedStudy].n

C9_Witness ==
    /\ Exited("study")
    /\ Succeeded
    /\ RequestedStudy = JStr("s1")
    /\ Document.trials_added = JInt(3)
    /\ studyTotals[JStr("s1")] # Absent

(***************************************************************************)
(* C10.  Data fetcher: a run whose request (source, instrument, dataType,  *)
(* startDate, endDate, outputPath) is identical to that of the run just    *)
(* before it reports the same records_count as that run.                   *)
(***************************************************************************)
C10_RefetchSameCount ==
    (Exited("data") /\ IsObject /\ lastFetch # NoFetch /\ lastFetch.request = RequestOf(stdin))
    => (Succeeded /\ Document.records_count = lastFetch.records_count)

C10_Witness ==
    /\ Exited("data")
    /\ IsObject
    /\ Has("outputPath")
    /\ lastFetch # NoFetch
    /\ lastFetch.request = RequestOf(stdin)
    /\ Succeeded

====
